---- MODULE Spec2Model ----
(***************************************************************************)
(* Model of src/debugger/sweetpadlldb.py: an LLDB Python extension that    *)
(* registers the command container "sweetpad" with the subcommands "first" *)
(* and "second" from its load hook, and the two handlers behind them.      *)
(*                                                                         *)
(* The state is what the module can touch: the debugger (its user command  *)
(* registry, its command history and its overwrite setting), the script    *)
(* interpreter's session dictionary (internal_dict), the process's         *)
(* standard output, the result objects of the commands run so far, and the *)
(* position of the load hook.                                              *)
(***************************************************************************)
EXTENDS Naturals, Sequences, FiniteSets

VARIABLES debugger, session_dict, stdout, results, pc, loads

vars == <<debugger, session_dict, stdout, results, pc, loads>>

----------------------------------------------------------------------------
(* Bounds of the exploration. *)

\* how many times the host loads the module in one session
MaxLoads == 2

\* how many commands / handler calls are run in one session
MaxInvocations == 2

\* the argument strings a user may type after the command
Args == {"", "some args"}

----------------------------------------------------------------------------
(* The module as the host sees it. *)

\* The name under which `command script import` binds the file in the
\* session dictionary: the file's name without ".py".
ModuleName == "sweetpadlldb"

\* The callables the file defines at module level.
ModuleFunctions == {"first_utility", "second_utility", "__lldb_init_module"}

FirstLine == "I am the first utility"

SecondLine == "I am the second utility"

Confirmation ==
    "The \"sweetpad\" python command has been installed and its subcommands are ready for use."

\* A dotted function reference <<module, function>>; NoRef where none is given.
NoRef == <<"", "">>

\* What a failed resolution of a reference yields.
NoHandler == "none"

\* The three command lines given to debugger.HandleCommand, parsed:
\*   command container add -h <help> sweetpad
\*   command script add -f sweetpad.first_utility -h <help> sweetpad first
\*   command script add -f sweetpad.second_utility -h <help> sweetpad second
\* None of them carries the -o (overwrite) flag.
ContainerAddRequest ==
    [kind |-> "container", group |-> "", name |-> "sweetpad", func |-> NoRef,
     help |-> "A container for my utilities", overwrite |-> FALSE]

FirstAddRequest ==
    [kind |-> "script", group |-> "sweetpad", name |-> "first",
     func |-> <<"sweetpad", "first_utility">>,
     help |-> "My first utility", overwrite |-> FALSE]

SecondAddRequest ==
    [kind |-> "script", group |-> "sweetpad", name |-> "second",
     func |-> <<"sweetpad", "second_utility">>,
     help |-> "My second utility", overwrite |-> FALSE]

NoRequest ==
    [kind |-> "", group |-> "", name |-> "", func |-> NoRef,
     help |-> "", overwrite |-> FALSE]

\* Faulty variants of the load hook's body: requests out of order, a repeated
\* subcommand name, handlers exchanged, a print after the first request.
InitModuleBody_scriptsFirst ==
    << [op |-> "HandleCommand", req |-> FirstAddRequest, text |-> ""],
       [op |-> "HandleCommand", req |-> ContainerAddRequest, text |-> ""],
       [op |-> "HandleCommand", req |-> SecondAddRequest, text |-> ""],
       [op |-> "print", req |-> NoRequest, text |-> Confirmation] >>

InitModuleBody_sameName ==
    << [op |-> "HandleCommand", req |-> ContainerAddRequest, text |-> ""],
       [op |-> "HandleCommand", req |-> FirstAddRequest, text |-> ""],
       [op |-> "HandleCommand",
        req |-> [SecondAddRequest EXCEPT !.name = "first"], text |-> ""],
       [op |-> "print", req |-> NoRequest, text |-> Confirmation] >>

InitModuleBody_swappedHandlers ==
    << [op |-> "HandleCommand", req |-> ContainerAddRequest, text |-> ""],
       [op |-> "HandleCommand",
        req |-> [FirstAddRequest EXCEPT !.func = SecondAddRequest.func],
        text |-> ""],
       [op |-> "HandleCommand",
        req |-> [SecondAddRequest EXCEPT !.func = FirstAddRequest.func],
        text |-> ""],
       [op |-> "print", req |-> NoRequest, text |-> Confirmation] >>

InitModuleBody_printEach ==
    << [op |-> "HandleCommand", req |-> ContainerAddRequest, text |-> ""],
       [op |-> "print", req |-> NoRequest, text |-> Confirmation],
       [op |-> "HandleCommand", req |-> FirstAddRequest, text |-> ""],
       [op |-> "HandleCommand", req |-> SecondAddRequest, text |-> ""],
       [op |-> "print", req |-> NoRequest, text |-> Confirmation] >>

\* The body of __lldb_init_module: four statements, no branch, no try.
InitModuleBody ==
    << [op |-> "HandleCommand", req |-> ContainerAddRequest, text |-> ""],
       [op |-> "HandleCommand", req |-> FirstAddRequest, text |-> ""],
       [op |-> "HandleCommand", req |-> SecondAddRequest, text |-> ""],
       [op |-> "print", req |-> NoRequest, text |-> Confirmation] >>

\* Faulty variants of the control flow: a failed request is retried; a failed
\* request ends the hook.
NextPc_retry(p, ok) ==
    IF ~ok THEN p ELSE IF p < Len(InitModuleBody) THEN p + 1 ELSE 0

NextPc_abort(p, ok) ==
    IF ~ok THEN 0 ELSE IF p < Len(InitModuleBody) THEN p + 1 ELSE 0

\* The statement after statement p: the next line, whatever the call at p
\* reported (its outcome `ok` is never looked at); 0 once the hook returns.
NextPc(p, ok) == IF p < Len(InitModuleBody) THEN p + 1 ELSE 0

----------------------------------------------------------------------------
(* The handlers.  Each takes the debugger, the raw argument string, the    *)
(* result object and the session dictionary, and (as does any Python code) *)
(* can reach the process's standard output; each yields what these are     *)
(* after the call and whether the call raised.                             *)

\* Faulty variant: the print without file=result.
first_utility_toStdout(dbg, command, result, internal_dict, out) ==
    [debugger |-> dbg, result |-> result, internal_dict |-> internal_dict,
     stdout |-> Append(out, FirstLine), raised |-> FALSE]

first_utility(dbg, command, result, internal_dict, out) ==
    [debugger |-> dbg, result |-> Append(result, FirstLine),
     internal_dict |-> internal_dict, stdout |-> out, raised |-> FALSE]

second_utility(dbg, command, result, internal_dict, out) ==
    [debugger |-> dbg, result |-> Append(result, SecondLine),
     internal_dict |-> internal_dict, stdout |-> out, raised |-> FALSE]

\* Calling the module-level function named h.
CallHandler(h, dbg, command, result, internal_dict, out) ==
    IF h = "first_utility"
    THEN first_utility(dbg, command, result, internal_dict, out)
    ELSE second_utility(dbg, command, result, internal_dict, out)

----------------------------------------------------------------------------
(* The host side of debugger.HandleCommand and of command dispatch.        *)

\* The registry entries a request would collide with.
Existing(registry, req) ==
    {e \in registry : e.group = req.group /\ e.name = req.name}

\* Why the host rejects a request ("" when it accepts it).  A root name in
\* use is not replaced without -o; a subcommand needs its container; an
\* existing subcommand is replaced without -o only when the host's
\* require-overwrite setting is off.
Rejection(dbg, req) ==
    IF req.kind = "container"
    THEN IF Existing(dbg.registry, req) # {} /\ ~req.overwrite
         THEN "exists" ELSE ""
    ELSE IF ~\E c \in dbg.registry :
                c.kind = "container" /\ c.group = "" /\ c.name = req.group
         THEN "no container"
         ELSE IF Existing(dbg.registry, req) # {}
                 /\ ~req.overwrite /\ dbg.require_overwrite
              THEN "exists" ELSE ""

Entry(req) ==
    [kind |-> req.kind, group |-> req.group, name |-> req.name,
     func |-> req.func, help |-> req.help]

\* debugger.HandleCommand(req) issued by load number n: the host runs the
\* command, records it with its outcome, and returns to the caller without
\* raising.
HandleCommand(dbg, n, req) ==
    LET why == Rejection(dbg, req) IN
    [dbg EXCEPT
       !.registry = IF why = "" THEN (@ \ Existing(@, req)) \cup {Entry(req)}
                    ELSE @,
       !.history = Append(@, [load |-> n, req |-> req, error |-> why])]

\* The callable a dotted reference names in the session dictionary: its
\* first component must be a name bound there, which for this repository
\* is only the module under the name it was imported with.
Resolve(ref, internal_dict) ==
    IF ref[1] \in internal_dict /\ ref[1] = ModuleName
       /\ ref[2] \in ModuleFunctions
    THEN ref[2] ELSE NoHandler

\* The binding of "sweetpad <sub>" in the registry, as a set (empty: none).
Binding(registry, sub) ==
    {e \in registry : e.kind = "script" /\ e.group = "sweetpad" /\ e.name = sub}

\* The load hook has returned this many times.
Completed == IF pc = 0 THEN loads ELSE loads - 1

----------------------------------------------------------------------------
(* Initial state: a fresh debugger session, nothing loaded. *)

Init ==
    /\ debugger \in {[registry |-> {}, history |-> <<>>, require_overwrite |-> b]
                        : b \in BOOLEAN}
    /\ session_dict = {}
    /\ stdout = <<>>
    /\ results = <<>>
    /\ pc = 0
    /\ loads = 0

\* `command script import`: the host binds the module in the session
\* dictionary and enters __lldb_init_module(debugger, internal_dict).
LoadModule ==
    /\ pc = 0
    /\ loads < MaxLoads
    /\ session_dict' = session_dict \cup {ModuleName}
    /\ loads' = loads + 1
    /\ pc' = 1
    /\ UNCHANGED <<debugger, stdout, results>>

\* A debugger.HandleCommand(...) line of the hook.
InitModuleHandleCommand ==
    /\ pc # 0
    /\ InitModuleBody[pc].op = "HandleCommand"
    /\ debugger' = HandleCommand(debugger, loads, InitModuleBody[pc].req)
    /\ pc' = NextPc(pc, Rejection(debugger, InitModuleBody[pc].req) = "")
    /\ UNCHANGED <<session_dict, stdout, results, loads>>

\* The print(...) line of the hook: no file argument, so standard output.
InitModulePrint ==
    /\ pc # 0
    /\ InitModuleBody[pc].op = "print"
    /\ stdout' = Append(stdout, InitModuleBody[pc].text)
    /\ pc' = NextPc(pc, TRUE)
    /\ UNCHANGED <<debugger, session_dict, results, loads>>

\* The outcome of running handler h on a fresh result object, recorded.
Invocation(via, sub, args, h) ==
    LET eff == CallHandler(h, debugger, args, <<>>, session_dict, stdout) IN
    /\ results' = Append(results,
          [via |-> via, cmd |-> sub, args |-> args, handler |-> h,
           out |-> eff.result,
           error |-> IF eff.raised THEN "raised" ELSE "",
           loaded |-> Completed])
    /\ debugger' = eff.debugger
    /\ session_dict' = eff.internal_dict
    /\ stdout' = eff.stdout

\* The user types "sweetpad <sub> <args>": the host looks the subcommand up,
\* resolves its function reference in the session dictionary and calls it
\* with a fresh result object; a missing command or an unresolvable
\* reference ends the command with an error and no output.
UserCommand(sub, args) ==
    /\ pc = 0
    /\ Len(results) < MaxInvocations
    /\ LET b == Binding(debugger.registry, sub)
           h == IF b = {} THEN NoHandler
                ELSE Resolve((CHOOSE e \in b : TRUE).func, session_dict)
       IN IF h # NoHandler
          THEN Invocation("user", sub, args, h)
          ELSE /\ results' = Append(results,
                     [via |-> "user", cmd |-> sub, args |-> args,
                      handler |-> NoHandler, out |-> <<>>,
                      error |-> IF b = {} THEN "not a valid command"
                                ELSE "unable to execute script function",
                      loaded |-> Completed])
               /\ UNCHANGED <<debugger, session_dict, stdout>>
    /\ UNCHANGED <<pc, loads>>

\* first_utility / second_utility called as functions of the imported
\* module (by the host for any command bound to them, or from a script).
InvokeHandler(h, args) ==
    /\ pc = 0
    /\ Len(results) < MaxInvocations
    /\ ModuleName \in session_dict
    /\ Invocation("direct", IF h = "first_utility" THEN "first" ELSE "second",
                  args, h)
    /\ UNCHANGED <<pc, loads>>

Next ==
    \/ LoadModule
    \/ InitModuleHandleCommand
    \/ InitModulePrint
    \/ \E sub \in {"first", "second"}, args \in Args : UserCommand(sub, args)
    \/ \E h \in {"first_utility", "second_utility"}, args \in Args :
          InvokeHandler(h, args)

Spec == Init /\ [][Next]_vars

----------------------------------------------------------------------------
(* Properties. *)

Registry == debugger.registry

History == debugger.history

\* The names registered under the group "sweetpad".
Subcommands == {e.name : e \in {x \in Registry : x.group = "sweetpad"}}

HasContainer ==
    \E c \in Registry : c.kind = "container" /\ c.group = "" /\ c.name = "sweetpad"

\* The step runs one of the module's handlers and records its result.
HandlerRan ==
    /\ Len(results') = Len(results) + 1
    /\ results'[Len(results')].handler # NoHandler

\* C1: once the module is loaded, the function reference registered for
\* "sweetpad first" resolves to first_utility and the one registered for
\* "sweetpad second" resolves to second_utility, never to the other handler
\* and never to no handler.
C1_ReferencesResolve ==
    Completed >= 1 =>
        /\ Binding(Registry, "first") # {}
        /\ Binding(Registry, "second") # {}
        /\ \A e \in Binding(Registry, "first") :
              Resolve(e.func, session_dict) = "first_utility"
        /\ \A e \in Binding(Registry, "second") :
              Resolve(e.func, session_dict) = "second_utility"

\* C2: every "sweetpad first" run after a load leaves exactly the line
\* "I am the first utility" in its result, whatever the arguments.
C2_FirstOutput ==
    \A i \in 1..Len(results) :
        (results[i].via = "user" /\ results[i].cmd = "first"
            /\ results[i].loaded >= 1)
        => results[i].out = <<FirstLine>>

\* C3: every "sweetpad second" run after a load leaves exactly the line
\* "I am the second utility" in its result, whatever the arguments.
C3_SecondOutput ==
    \A i \in 1..Len(results) :
        (results[i].via = "user" /\ results[i].cmd = "second"
            /\ results[i].loaded >= 1)
        => results[i].out = <<SecondLine>>

\* C4: from the first return of the load hook on, the registry holds the
\* group "sweetpad" with exactly the subcommands "first" and "second", and a
\* step outside the load hook (a command, a handler call) leaves the
\* registry as it is.
C4_RegistryAfterLoad ==
    /\ [](Completed >= 1 => (HasContainer /\ Subcommands = {"first", "second"}))
    /\ [][(pc = 0 /\ pc' = 0) => debugger'.registry = debugger.registry]_vars

C4_Witness ==
    /\ Completed >= 1
    /\ Len(results) >= 1
    /\ Subcommands = {"first", "second"}

\* C5: no step of a load (entering the hook included) writes to a command
\* result, and the only step of a load that writes to standard output is
\* the hook's last one, which appends the confirmation line.
C5_LoadOutput ==
    [][(pc # 0 \/ pc' # 0) =>
          /\ results' = results
          /\ \/ stdout' = stdout
             \/ (pc' = 0 /\ stdout' = Append(stdout, Confirmation))]_vars

C5_Witness ==
    /\ Completed >= 1
    /\ pc = 0
    /\ stdout = <<Confirmation>>
    /\ Len(results) >= 1

C7_NoLocalHandling ==
    /\ [](/\ \A i, j \in 1..Len(History) :
                (i < j /\ History[i].load = History[j].load)
                   => History[i].req # History[j].req
          /\ \A k \in 1..Len(stdout) : stdout[k] = Confirmation
          /\ Len(stdout) <= loads)
    /\ [][Len(debugger'.history) > Len(debugger.history) =>
             /\ pc' = pc + 1
             /\ SubSeq(debugger'.history, 1, Len(debugger.history))
                   = debugger.history]_vars

C7_Witness ==
    /\ pc = 0
    /\ \E i \in 1..Len(History) : History[i].error = "exists"

\* C8: the requests of every run are, in this order, the container
\* "sweetpad", the subcommand "first", the subcommand "second", three per
\* run; and a confirmation line is on standard output only for runs whose
\* three requests have all been issued.
C8_RequestOrder ==
    /\ \A i \in 1..Len(History) :
          /\ History[i].load = ((i - 1) \div 3) + 1
          /\ (i - 1) % 3 = 0 =>
                (History[i].req.kind = "container"
                   /\ History[i].req.name = "sweetpad")
          /\ (i - 1) % 3 = 1 =>
                (History[i].req.kind = "script"
                   /\ History[i].req.group = "sweetpad"
                   /\ History[i].req.name = "first")
          /\ (i - 1) % 3 = 2 =>
                (History[i].req.kind = "script"
                   /\ History[i].req.group = "sweetpad"
                   /\ History[i].req.name = "second")
    /\ Len(History) <= 3 * loads
    /\ 3 * Len(stdout) <= Len(History)
    /\ pc = 0 => Len(History) = 3 * loads

C8_Witness ==
    /\ pc = 0
    /\ loads = 2
    /\ Len(History) = 6
    /\ Len(stdout) = 2

\* C9: a step that runs a handler changes only the results: the debugger
\* (registry, history, settings), the session dictionary, standard output
\* and the hook's state are as before, the earlier results are untouched,
\* and the new result carries no error.
C9_HandlerFrame ==
    [][HandlerRan =>
          /\ debugger' = debugger
          /\ session_dict' = session_dict
          /\ stdout' = stdout
          /\ pc' = pc /\ loads' = loads
          /\ SubSeq(results', 1, Len(results)) = results
          /\ results'[Len(results')].error = ""]_vars

C9_Witness ==
    \E i, j \in 1..Len(results) :
        /\ i < j
        /\ results[i].handler = "second_utility"
        /\ results[j].handler = "first_utility"
        /\ results[j].out = <<FirstLine>>

\* C10: every completed run of the load hook has put exactly one
\* confirmation line on standard output, whatever the host answered to its
\* requests.
C10_ConfirmationAlways ==
    /\ Len(stdout) = Completed
    /\ \A k \in 1..Len(stdout) : stdout[k] = Confirmation

\* ... so the confirmation of a run is there although the host rejected
\* every request of that run.
C10_Witness ==
    /\ pc = 0
    /\ loads = 2
    /\ Len(stdout) = 2
    /\ \A i \in 1..Len(History) : History[i].load = 2 => History[i].error # ""
    /\ \E i \in 1..Len(History) : History[i].load = 2

====
